---- MODULE Spec2Model ----
(***************************************************************************)
(* Model of the live-video stream pipeline: the stream registry and the    *)
(* per-stream lifecycle (pkg/broadcast), the control surface                *)
(* (internal/handlers), the pipeline orchestrator (pkg/orchestrator) and    *)
(* the encoder supervisor (pkg/transcoder).                                 *)
(*                                                                         *)
(* Spec is the server: its steps are the HTTP handlers and the goroutines   *)
(* they spawn.  SpecStream, SpecLife, SpecBus, SpecFan, SpecLoop, SpecShut, *)
(* SpecWatch, SpecNeg and SpecPipe are the server restricted to some of its *)
(* handlers and goroutines.  SpecSess drives the public API of one          *)
(* IngestService, and SpecLock runs the lock and unlock calls of the        *)
(* methods of the registry, a stream, an orchestrator and its transcoder    *)
(* in concurrent goroutines.  SpecOrch drives the public API of one         *)
(* StreamOrchestrator and of one stand-alone FFmpegTranscoder with          *)
(* arbitrary call sequences,                                                *)
(* as a client of the two packages would; SpecStart follows one Start of    *)
(* the orchestrator through its readiness wait; SpecIngest adds a client    *)
(* of IngestService.CloseConnection to the negotiation handlers; SpecWait,  *)
(* SpecPos and SpecHLS drive the readiness wait, the playback position and  *)
(* the uploader on their own.                                               *)
(*                                                                         *)
(* Every method that holds its object's mutex from entry to return is one  *)
(* step.  StreamOrchestrator.Start holds o.mu across the readiness wait,    *)
(* the encoder launch and the uploader launch; it is three steps, with the  *)
(* field pc recording where the call stands (pc /= "none" means o.mu is     *)
(* held by Start).  A handler resolves the stream pointer (GetStream) and   *)
(* then calls the stream method without the registry lock, so a stream      *)
(* method may run on a stream that has meanwhile been deleted from the      *)
(* registry: stream methods are enabled on every stream ever created, and   *)
(* the handler's NotFound outcome is enabled when the id is not registered. *)
(***************************************************************************)
EXTENDS Integers, Sequences, FiniteSets, TLC

\* ---- bounds of the model --------------------------------------------------
MaxStreams == 1
MaxViewers == 2
MaxOrch == 2
MaxStarts == 2
MaxScopes == 2
MaxFrames == 2
MaxSegments == 3
MaxUptime == 7
MaxDuration == 5
Halves == 2
MaxPeers == 2
MaxThreads == 3

\* ---- StreamStatus (pkg/broadcast) -----------------------------------------
StatusIdle == "idle"
StatusStreaming == "streaming"
StatusStopped == "stopped"

VARIABLES
  stream,     \* every Stream object allocated so far, by creation index
  streams,    \* BroadcastManager.streams: the indices still registered
  viewer,     \* every Viewer object allocated so far, by creation index
  orchs,      \* every StreamOrchestrator allocated by the handlers
  pending,    \* per stream: delayed pipeline starts scheduled by WebRTCOffer
  orch,       \* the StreamOrchestrator driven by SpecOrch
  enc,        \* the stand-alone FFmpegTranscoder driven by SpecOrch
  chunks,     \* the numbered chunks uploaded so far: stream, case of the send
  wait,       \* the waitForInputFiles call driven by SpecWait
  pos,        \* the stream clock and duration driven by SpecPos
  hls,        \* the output tree, the uploader and the bucket of SpecHLS
  ingest,     \* the stand-alone IngestService driven by SpecSess
  lk,         \* the mutexes and the goroutines of SpecLock
  ret         \* the last step taken and its result

vars == <<stream, streams, viewer, orchs, pending, orch, enc, chunks, wait,
          pos, hls, ingest, lk, ret>>

\* what the handlers of the server never touch, and what they touch
Others == <<orch, enc, chunks, wait, pos, hls, ingest, lk>>
Server == <<stream, streams, viewer, orchs, pending, chunks, wait, pos, hls,
            ingest, lk>>
Core == <<stream, streams, viewer, orchs, pending, orch, enc, chunks, ingest,
          lk>>
Rest == <<stream, streams, viewer, orchs, pending, orch, enc, chunks, wait,
          pos, hls>>

StreamIds == DOMAIN stream
ViewerIds == DOMAIN viewer
OrchIds == DOMAIN orchs

\* calls lists the calls the step made on the parts of its object, in the
\* order it made them (kept for StreamOrchestrator.Stop only)
Result(op, id, err) == [op |-> op, id |-> id, err |-> err, calls |-> <<>>]

\* ---- encoder supervisor (pkg/transcoder) ----------------------------------
\* A transcoder is its running flag and the child cancellation scopes it has
\* allocated, oldest first.  t.cancel is the last scope (nil when none).  A
\* scope records the generation of the parent context it derives from,
\* whether it (or its parent) has been cancelled, and the state of the
\* process bound to it: "failed" (cmd.Start failed, no process), "alive",
\* "exited"; ctxDone tells whether the parent context itself is cancelled.
NewFFmpegTranscoder == [running |-> FALSE, scopes |-> <<>>]

CancelLast(scopes) ==
  IF Len(scopes) = 0 THEN scopes
  ELSE [scopes EXCEPT ![Len(scopes)].cancelled = TRUE]

CancelGen(scopes, gen) ==
  [i \in DOMAIN scopes |->
     IF scopes[i].gen = gen
       THEN [scopes[i] EXCEPT !.cancelled = TRUE, !.ctxDone = TRUE]
     ELSE scopes[i]]

EncoderOutcomes == {"dirs_failed", "spawn_failed", "started"}

\* FFmpegTranscoder.StartHLSTranscoding: the error it returns
StartHLSTranscodingErr(t, outcome) ==
  IF t.running THEN "AlreadyRunning"
  ELSE IF outcome = "started" THEN "ok" ELSE "error"

\* FFmpegTranscoder.StartHLSTranscoding: the transcoder it leaves
StartHLSTranscoding(t, gen, outcome) ==
  IF t.running THEN t
  ELSE IF outcome = "dirs_failed" THEN t
  ELSE IF outcome = "spawn_failed"
    THEN [t EXCEPT !.scopes = Append(@, [gen |-> gen, cancelled |-> TRUE,
                                         state |-> "failed",
                                         ctxDone |-> FALSE])]
  ELSE [running |-> TRUE,
        scopes |-> Append(t.scopes, [gen |-> gen, cancelled |-> FALSE,
                                     state |-> "alive",
                                     ctxDone |-> FALSE])]

\* FFmpegTranscoder.Stop
FFmpegStop(t) ==
  IF ~t.running THEN t
  ELSE [running |-> FALSE, scopes |-> CancelLast(t.scopes)]

\* the goroutine started by StartHLSTranscoding: cmd.Wait returns when the
\* process of scope i has exited, then the running flag is cleared
WaitExit(t, i) ==
  [running |-> FALSE, scopes |-> [t.scopes EXCEPT ![i].state = "exited"]]

\* the exit waiter: whether cmd.Wait returns an error.  A process killed by
\* the cancellation of its scope returns one; a process that exits on its
\* own returns one or not.
WaitErrs(sc) == IF sc.cancelled THEN {TRUE} ELSE BOOLEAN

\* the exit waiter: the line it logs, "Exited with error" when cmd.Wait
\* returned an error and the context StartHLSTranscoding was given is not
\* cancelled, "Exited normally" otherwise
ExitReport(sc, err) ==
  IF err /\ ~sc.ctxDone THEN "error" ELSE "normal"

IsRunning(t) == t.running

AliveScopes(t) == {i \in DOMAIN t.scopes : t.scopes[i].state = "alive"}

\* ---- HLS uploader (pkg/hls) -----------------------------------------------
\* Uploader.Stop returns an error or nil; a stop that fails leaves the
\* watcher as it is
UploaderStop(u, err) == IF u = "nil" \/ err THEN u ELSE "stopped"

\* ---- pipeline orchestrator (pkg/orchestrator) -----------------------------
NewStreamOrchestrator(sid) ==
  [streamID |-> sid, pc |-> "none", running |-> FALSE, ctx |-> "nil",
   gen |-> 0, uploader |-> "nil", transcoder |-> NewFFmpegTranscoder,
   warned |-> FALSE]

\* StreamOrchestrator.Start, up to the creation of the context
StartLockErr(o) == IF o.running THEN "AlreadyRunning" ELSE "ok"

\* Start without the running check
StartLock_NoCheck(o) ==
  [o EXCEPT !.ctx = "active", !.gen = @ + 1, !.pc = "encoder"]

StartLock(o) ==
  IF o.running THEN o
  ELSE [o EXCEPT !.ctx = "active", !.gen = @ + 1, !.pc = "encoder"]

\* StreamOrchestrator.Start: readiness wait (its result only logs a
\* warning), then the encoder launch; warned tells whether the last wait
\* logged the warning
StartEncoderErr(o, outcome) == StartHLSTranscodingErr(o.transcoder, outcome)

\* Start returning when the readiness wait fails
StartEncoder_FailOnTimeout(o, ready, outcome) ==
  IF ~ready THEN [o EXCEPT !.pc = "none", !.warned = TRUE]
  ELSE [o EXCEPT !.transcoder = StartHLSTranscoding(@, o.gen, outcome),
                 !.pc = IF StartEncoderErr(o, outcome) = "ok" THEN "uploader"
                        ELSE "none",
                 !.warned = FALSE]

StartEncoder(o, ready, outcome) ==
  [o EXCEPT !.transcoder = StartHLSTranscoding(@, o.gen, outcome),
            !.pc = IF StartEncoderErr(o, outcome) = "ok" THEN "uploader"
                   ELSE "none",
            !.warned = ~ready]

UploaderOutcomes == {"new_failed", "start_failed", "started"}

\* StreamOrchestrator.Start: uploader construction and start
StartUploader(o, outcome) ==
  IF outcome = "new_failed"
    THEN [o EXCEPT !.transcoder = FFmpegStop(@), !.pc = "none"]
  ELSE IF outcome = "start_failed"
    THEN [o EXCEPT !.uploader = "created", !.transcoder = FFmpegStop(@),
                   !.pc = "none"]
  ELSE [o EXCEPT !.uploader = "watching", !.running = TRUE, !.pc = "none"]

\* o.cancel(): cancels the orchestrator's context and every scope derived
\* from it
CancelCtx(o) ==
  IF o.ctx = "nil" THEN o
  ELSE [o EXCEPT !.ctx = "cancelled",
                 !.transcoder.scopes = CancelGen(@, o.gen)]

\* one call made by a method: the object it leaves and the log of calls
Called(r, call, err, o) ==
  [o |-> o, calls |-> Append(r.calls, [call |-> call, err |-> err])]

\* Stop returning the error of the uploader
OrchStopRun_AbortOnError(o, uerr) ==
  IF ~o.running THEN [o |-> o, calls |-> <<>>]
  ELSE LET r0 == [o |-> o, calls |-> <<>>]
           r1 == IF r0.o.uploader /= "nil"
                   THEN Called(r0, "uploader.Stop", uerr,
                               [r0.o EXCEPT !.uploader = UploaderStop(@, uerr)])
                   ELSE r0
           r2 == Called(r1, "transcoder.Stop", FALSE,
                        [r1.o EXCEPT !.transcoder = FFmpegStop(@)])
           r3 == IF r2.o.ctx /= "nil"
                   THEN Called(r2, "cancel", FALSE, CancelCtx(r2.o))
                   ELSE r2
       IN IF uerr THEN r1
          ELSE [o |-> [r3.o EXCEPT !.running = FALSE], calls |-> r3.calls]

\* StreamOrchestrator.Stop, statement by statement: the uploader (uerr tells
\* whether its Stop fails; the error is logged), the transcoder, the
\* context, the running flag
OrchStopRun(o, uerr) ==
  IF ~o.running THEN [o |-> o, calls |-> <<>>]
  ELSE LET r0 == [o |-> o, calls |-> <<>>]
           r1 == IF r0.o.uploader /= "nil"
                   THEN Called(r0, "uploader.Stop", uerr,
                               [r0.o EXCEPT !.uploader = UploaderStop(@, uerr)])
                   ELSE r0
           r2 == Called(r1, "transcoder.Stop", FALSE,
                        [r1.o EXCEPT !.transcoder = FFmpegStop(@)])
           r3 == IF r2.o.ctx /= "nil"
                   THEN Called(r2, "cancel", FALSE, CancelCtx(r2.o))
                   ELSE r2
       IN [o |-> [r3.o EXCEPT !.running = FALSE], calls |-> r3.calls]

\* Stop without the running check
OrchStop_NoCheck(o, uerr) == OrchStopRun([o EXCEPT !.running = TRUE], uerr).o

\* StreamOrchestrator.Stop: the orchestrator it leaves
OrchStop(o, uerr) == OrchStopRun(o, uerr).o

OrchWait(o, i) == [o EXCEPT !.transcoder = WaitExit(@, i)]

\* StreamOrchestrator.GetStats: the entries of the stats that depend on the
\* state of the orchestrator
OrchGetStats(o) == [streamID |-> o.streamID, running |-> o.running]

\* ---- stream registry and stream lifecycle (pkg/broadcast) -----------------
\* stopChan counts the close(stopChan) calls executed (a second one panics);
\* loops counts the live broadcastLoop goroutines; starts counts the
\* successful Start calls; orchestrator is 0 for nil.  broadcast is the
\* content of the bus channel, oldest frame first; held holds the frame of
\* every loop that has received one from the bus and not yet offered it to
\* the subscribers (the other loops wait in their select).  webrtcIngest is
\* the IngestService of the stream: created tells whether it exists,
\* peerConnection whether its peer handle is set, peerClosed whether the
\* handle now set has been closed, closes counts the Close calls made on peer
\* handles, closed is the service's closed flag.
BusCap == 100
ViewerCap == 10

NewStream ==
  [Status |-> StatusIdle, StartedAt |-> FALSE, ViewerCount |-> 0,
   viewers |-> {}, stopChan |-> 0, loops |-> 0, starts |-> 0,
   broadcast |-> <<>>, held |-> <<>>,
   webrtcIngest |-> [created |-> FALSE, peerConnection |-> FALSE,
                     peerClosed |-> FALSE, closes |-> 0, closed |-> FALSE],
   orchestrator |-> 0]

\* closes counts the close(DataChan) calls executed on the viewer's queue;
\* DataChan is the content of the queue, oldest frame first; received is what
\* the viewer's WatchStream has written to its client so far; gone tells
\* whether the context of the client's request is done
NewViewer == [closed |-> FALSE, closes |-> 0, DataChan |-> <<>>,
              received |-> <<>>, gone |-> FALSE]

\* the guarded close of one subscriber queue (Stop and RemoveViewer)
CloseViewer(w) ==
  IF ~w.closed THEN [w EXCEPT !.closed = TRUE, !.closes = @ + 1] ELSE w

\* BroadcastManager.CreateStream / CreateStreamWithHLS
CreateStream ==
  /\ Len(stream) < MaxStreams
  /\ stream' = Append(stream, NewStream)
  /\ streams' = streams \cup {Len(stream) + 1}
  /\ pending' = Append(pending, 0)
  /\ ret' = Result("CreateStream", Len(stream) + 1, "ok")
  /\ UNCHANGED <<viewer, orchs, Others>>

\* Stream.Start: the error it returns
StartErr(s) ==
  IF stream[s].Status = StatusStreaming THEN "IllegalState" ELSE "ok"

\* Start without the status check
Start_Unchecked(s) ==
  stream' = [stream EXCEPT ![s].Status = StatusStreaming,
                           ![s].StartedAt = TRUE,
                           ![s].loops = @ + 1,
                           ![s].starts = @ + 1]

\* Stream.Start
Start(s) ==
  IF stream[s].Status = StatusStreaming
    THEN UNCHANGED stream
    ELSE stream' = [stream EXCEPT ![s].Status = StatusStreaming,
                                  ![s].StartedAt = TRUE,
                                  ![s].loops = @ + 1,
                                  ![s].starts = @ + 1]

\* Stream.Stop: the error it returns; closing the already closed stopChan
\* panics, after Status has been written and before any queue is closed
StopErr(s) ==
  IF stream[s].Status /= StatusStreaming THEN "IllegalState"
  ELSE IF stream[s].stopChan > 0 THEN "panic"
  ELSE "ok"

\* Stream.Stop
Stop(s) ==
  IF stream[s].Status /= StatusStreaming
    THEN UNCHANGED <<stream, viewer>>
    ELSE /\ stream' = [stream EXCEPT ![s].Status = StatusStopped,
                                     ![s].stopChan = @ + 1]
         /\ IF stream[s].stopChan > 0
              THEN UNCHANGED viewer
              ELSE viewer' = [v \in DOMAIN viewer |->
                                IF v \in stream[s].viewers
                                  THEN CloseViewer(viewer[v])
                                  ELSE viewer[v]]

\* AddViewer without the ViewerCount update
AddViewer_StaleCount(s) ==
  /\ viewer' = Append(viewer, NewViewer)
  /\ stream' = [stream EXCEPT ![s].viewers = @ \cup {Len(viewer) + 1}]

\* Stream.AddViewer
AddViewer(s) ==
  /\ viewer' = Append(viewer, NewViewer)
  /\ stream' = [stream EXCEPT
                  ![s].viewers = @ \cup {Len(viewer) + 1},
                  ![s].ViewerCount = Cardinality(stream[s].viewers
                                                 \cup {Len(viewer) + 1})]

\* RemoveViewer closing the queue without looking at the closed flag
RemoveViewer_Unguarded(s, v) ==
  IF v \in stream[s].viewers
    THEN /\ viewer' = [viewer EXCEPT ![v].closed = TRUE,
                                     ![v].closes = @ + 1]
         /\ stream' = [stream EXCEPT
                         ![s].viewers = @ \ {v},
                         ![s].ViewerCount =
                            Cardinality(stream[s].viewers \ {v})]
    ELSE UNCHANGED <<stream, viewer>>

\* Stream.RemoveViewer
RemoveViewer(s, v) ==
  IF v \in stream[s].viewers
    THEN /\ viewer' = [viewer EXCEPT ![v] = CloseViewer(@)]
         /\ stream' = [stream EXCEPT
                         ![s].viewers = @ \ {v},
                         ![s].ViewerCount =
                            Cardinality(stream[s].viewers \ {v})]
    ELSE UNCHANGED <<stream, viewer>>

\* a loop that looks at stopChan only when the bus is empty
LoopExit_BusFirst(s) ==
  /\ s \in StreamIds
  /\ stream[s].loops > Len(stream[s].held)
  /\ stream[s].stopChan > 0
  /\ Len(stream[s].broadcast) = 0
  /\ stream' = [stream EXCEPT ![s].loops = @ - 1]
  /\ ret' = Result("broadcastLoop", s, "ok")
  /\ UNCHANGED <<streams, viewer, orchs, pending, Others>>

\* Stream.broadcastLoop returning on the closed stopChan
LoopExit(s) ==
  /\ s \in StreamIds
  /\ stream[s].loops > Len(stream[s].held)
  /\ stream[s].stopChan > 0
  /\ stream' = [stream EXCEPT ![s].loops = @ - 1]
  /\ ret' = Result("broadcastLoop", s, "ok")
  /\ UNCHANGED <<streams, viewer, orchs, pending, Others>>

\* Stream.Broadcast sending whether or not the bus has room
Broadcast_Unbounded(s, data) ==
  stream' = [stream EXCEPT ![s].broadcast = Append(@, data)]

\* Stream.Broadcast: a send on the bus that falls through to default when the
\* bus is full
Broadcast(s, data) ==
  IF Len(stream[s].broadcast) < BusCap
    THEN stream' = [stream EXCEPT ![s].broadcast = Append(@, data)]
    ELSE UNCHANGED stream

\* which case of the select in Stream.Broadcast runs
BroadcastCase(s) ==
  IF Len(stream[s].broadcast) < BusCap THEN "enqueued" ELSE "dropped"

\* the send of broadcastLoop that never reaches the queue
Offer_Lost(w, data) == w

\* broadcastLoop: the send on one subscriber queue, which falls through to
\* default when the queue is full
Offer(w, data) ==
  IF Len(w.DataChan) < ViewerCap
    THEN [w EXCEPT !.DataChan = Append(@, data)]
    ELSE w

\* held without its i-th frame
Release(held, i) ==
  [j \in 1..(Len(held) - 1) |-> IF j < i THEN held[j] ELSE held[j + 1]]

\* broadcastLoop receiving the newest frame of the bus
LoopTake_Newest(s) ==
  /\ s \in StreamIds
  /\ stream[s].loops > Len(stream[s].held)
  /\ Len(stream[s].broadcast) > 0
  /\ LET n == Len(stream[s].broadcast) IN
     stream' = [stream EXCEPT
                  ![s].held = Append(@, stream[s].broadcast[n]),
                  ![s].broadcast = SubSeq(@, 1, n - 1)]
  /\ ret' = Result("broadcastLoop.receive", s, "ok")
  /\ UNCHANGED <<streams, viewer, orchs, pending, Others>>

\* Stream.broadcastLoop: a loop waiting in its select receives the oldest
\* frame of the bus
LoopTake(s) ==
  /\ s \in StreamIds
  /\ stream[s].loops > Len(stream[s].held)
  /\ Len(stream[s].broadcast) > 0
  /\ stream' = [stream EXCEPT
                  ![s].held = Append(@, Head(stream[s].broadcast)),
                  ![s].broadcast = Tail(@)]
  /\ ret' = Result("broadcastLoop.receive", s, "ok")
  /\ UNCHANGED <<streams, viewer, orchs, pending, Others>>

\* Stream.broadcastLoop: under the read lock, the loop holding held[i] offers
\* it to every subscriber of the set.  The send on a queue that is closed
\* panics; the subscribers the iteration reached before have been offered the
\* frame, and the loop is gone.
LoopDeliver(s, i) ==
  /\ s \in StreamIds
  /\ i \in DOMAIN stream[s].held
  /\ LET data == stream[s].held[i]
         open == {v \in stream[s].viewers : ~viewer[v].closed}
     IN IF open /= stream[s].viewers
          THEN /\ \E reached \in SUBSET open :
                    viewer' = [v \in DOMAIN viewer |->
                                 IF v \in reached THEN Offer(viewer[v], data)
                                 ELSE viewer[v]]
               /\ stream' = [stream EXCEPT ![s].held = Release(@, i),
                                           ![s].loops = @ - 1]
               /\ ret' = Result("broadcastLoop.send", s, "panic")
          ELSE /\ viewer' = [v \in DOMAIN viewer |->
                               IF v \in open THEN Offer(viewer[v], data)
                               ELSE viewer[v]]
               /\ stream' = [stream EXCEPT ![s].held = Release(@, i)]
               /\ ret' = Result("broadcastLoop.send", s, "ok")
  /\ UNCHANGED <<streams, orchs, pending, Others>>

\* ---- control surface (internal/handlers) ----------------------------------
PendingTotal == IF Len(pending) = 0 THEN 0
                ELSE LET sum[i \in 0..Len(pending)] ==
                           IF i = 0 THEN 0 ELSE sum[i - 1] + pending[i]
                     IN sum[Len(pending)]

\* room for one more orchestrator allocation
OrchRoom == Len(orchs) + PendingTotal < MaxOrch

\* BroadcastHandler.CreateStream
HCreateStream == CreateStream

\* BroadcastHandler.StartStream
StartStream(s) ==
  /\ s \in StreamIds
  /\ \/ /\ s \notin streams
        /\ ret' = Result("StartStream", s, "NotFound")
        /\ UNCHANGED stream
     \/ /\ stream[s].starts < MaxStarts \/ StartErr(s) /= "ok"
        /\ Start(s)
        /\ ret' = Result("StartStream", s, StartErr(s))
  /\ UNCHANGED <<streams, viewer, orchs, pending, Others>>

\* BroadcastHandler.StopStream
StopStream(s) ==
  /\ s \in StreamIds
  /\ \/ /\ s \notin streams
        /\ ret' = Result("StopStream", s, "NotFound")
        /\ UNCHANGED <<stream, viewer>>
     \/ /\ Stop(s)
        /\ ret' = Result("StopStream", s, StopErr(s))
  /\ UNCHANGED <<streams, orchs, pending, Others>>

\* BroadcastManager.DeleteStream, called by BroadcastHandler.DeleteStream;
\* a panic in Stop unwinds past the delete
DeleteStream(s) ==
  /\ s \in 1..MaxStreams
  /\ IF s \notin streams
       THEN /\ ret' = Result("DeleteStream", s, "NotFound")
            /\ UNCHANGED <<stream, viewer, streams>>
       ELSE IF stream[s].Status = StatusStreaming
         THEN /\ Stop(s)
              /\ ret' = Result("DeleteStream", s, StopErr(s))
              /\ streams' = IF StopErr(s) = "panic" THEN streams
                            ELSE streams \ {s}
         ELSE /\ UNCHANGED <<stream, viewer>>
              /\ ret' = Result("DeleteStream", s, "ok")
              /\ streams' = streams \ {s}
  /\ UNCHANGED <<orchs, pending, Others>>

\* BroadcastHandler.WatchStream up to the delivery loop
WatchStream(s) ==
  /\ s \in StreamIds
  /\ \/ /\ s \notin streams
        /\ ret' = Result("WatchStream", s, "NotFound")
        /\ UNCHANGED <<stream, viewer>>
     \/ /\ Len(viewer) < MaxViewers
        /\ AddViewer(s)
        /\ ret' = Result("WatchStream", s, "ok")
  /\ UNCHANGED <<streams, orchs, pending, Others>>

\* BroadcastHandler.WatchStream returning (client gone or queue closed): the
\* deferred RemoveViewer
WatchDone(s, v) ==
  /\ s \in StreamIds
  /\ v \in stream[s].viewers
  /\ RemoveViewer(s, v)
  /\ ret' = Result("WatchDone", v, "ok")
  /\ UNCHANGED <<streams, orchs, pending, Others>>

\* BroadcastHandler.WatchStream: the delivery loop reads one frame of the
\* viewer's queue and writes it to the client
Receive(s, v) ==
  /\ s \in StreamIds
  /\ v \in stream[s].viewers
  /\ Len(viewer[v].DataChan) > 0
  /\ viewer' = [viewer EXCEPT
                  ![v].received = Append(@, Head(viewer[v].DataChan)),
                  ![v].DataChan = Tail(@)]
  /\ ret' = Result("WatchStream.send", v, "ok")
  /\ UNCHANGED <<stream, streams, orchs, pending, Others>>

\* the client of viewer v closes its connection: the context of its request
\* is done
ClientClosed(s, v) ==
  /\ s \in StreamIds
  /\ v \in stream[s].viewers
  /\ ~viewer[v].gone
  /\ viewer' = [viewer EXCEPT ![v].gone = TRUE]
  /\ ret' = Result("ClientClosed", v, "ok")
  /\ UNCHANGED <<stream, streams, orchs, pending, Others>>

\* a delivery loop that returns only when its client is gone
WatchReturn_ClientOnly(s, v) ==
  /\ v \in ViewerIds
  /\ viewer[v].gone
  /\ WatchDone(s, v)

\* BroadcastHandler.WatchStream: the select of the delivery loop takes the
\* clientClosed case, or receives from the queue that is closed and empty,
\* and the handler returns
WatchReturn(s, v) ==
  /\ v \in ViewerIds
  /\ \/ viewer[v].gone
     \/ viewer[v].closed /\ Len(viewer[v].DataChan) = 0
  /\ WatchDone(s, v)

\* BroadcastHandler.UploadStreamChunk with the request body data
UploadStreamChunk(s, data) ==
  /\ s \in StreamIds
  /\ Broadcast(s, data)
  /\ ret' = Result("UploadStreamChunk", s, BroadcastCase(s))
  /\ UNCHANGED <<streams, viewer, orchs, pending, orch, enc, wait, pos, hls,
                 ingest, lk>>

\* a broadcaster that sends the same chunk over and over
BlankChunk(s) ==
  /\ UploadStreamChunk(s, 0)
  /\ UNCHANGED chunks

\* broadcasters that number their chunks 1, 2, ...
NumberedChunk(s) ==
  /\ Len(chunks) < MaxFrames
  /\ UploadStreamChunk(s, Len(chunks) + 1)
  /\ chunks' = Append(chunks, [stream |-> s, case |-> BroadcastCase(s)])

\* a broadcaster that sends one chunk and no more
FirstChunk(s) ==
  /\ chunks = <<>>
  /\ NumberedChunk(s)

\* Stream.GetWebRTCIngest
GetWebRTCIngest(ing, mkdirOk) ==
  IF ~ing.created /\ mkdirOk THEN [ing EXCEPT !.created = TRUE] ELSE ing

OfferOutcomes == {"peer_failed", "sdp_failed", "answered"}

\* IngestService.HandleOffer: a new peer connection takes the place of the
\* handle, before the descriptions are set
HandleOffer(ing, outcome) ==
  IF outcome = "peer_failed" THEN ing
  ELSE [ing EXCEPT !.peerConnection = TRUE, !.peerClosed = FALSE]

\* CloseConnection closing the handle without looking at the closed flag
CloseConnection_Unguarded(ing) ==
  IF ing.peerConnection
    THEN [ing EXCEPT !.peerClosed = TRUE, !.closes = @ + 1, !.closed = TRUE]
    ELSE [ing EXCEPT !.closed = TRUE]

\* IngestService.CloseConnection (it returns nil on every path)
CloseConnection(ing) ==
  IF ing.closed THEN ing
  ELSE IF ing.peerConnection
    THEN [ing EXCEPT !.peerClosed = TRUE, !.closes = @ + 1, !.closed = TRUE]
    ELSE [ing EXCEPT !.closed = TRUE]

\* WebRTCOffer scheduling the pipeline start before it looks at the result
\* of HandleOffer
WebRTCOffer_SpawnFirst(s) ==
  /\ s \in StreamIds
  /\ \/ /\ ret' = Result("WebRTCOffer", s, "InvalidArgument")
        /\ UNCHANGED <<stream, pending>>
     \/ /\ s \notin streams
        /\ ret' = Result("WebRTCOffer", s, "NotFound")
        /\ UNCHANGED <<stream, pending>>
     \/ \E mkdirOk \in BOOLEAN, outcome \in OfferOutcomes :
          LET ing == GetWebRTCIngest(stream[s].webrtcIngest, mkdirOk) IN
          IF ~ing.created
            THEN /\ ret' = Result("WebRTCOffer", s, "Internal")
                 /\ UNCHANGED <<stream, pending>>
            ELSE /\ stream' = [stream EXCEPT
                                ![s].webrtcIngest = HandleOffer(ing, outcome)]
                 /\ OrchRoom
                 /\ pending' = [pending EXCEPT ![s] = @ + 1]
                 /\ ret' = Result("WebRTCOffer", s,
                                  IF outcome = "answered" THEN "ok"
                                  ELSE "Internal")
  /\ UNCHANGED <<streams, viewer, orchs, Others>>

\* BroadcastHandler.WebRTCOffer
WebRTCOffer(s) ==
  /\ s \in StreamIds
  /\ \/ /\ ret' = Result("WebRTCOffer", s, "InvalidArgument")
        /\ UNCHANGED <<stream, pending>>
     \/ /\ s \notin streams
        /\ ret' = Result("WebRTCOffer", s, "NotFound")
        /\ UNCHANGED <<stream, pending>>
     \/ \E mkdirOk \in BOOLEAN, outcome \in OfferOutcomes :
          LET ing == GetWebRTCIngest(stream[s].webrtcIngest, mkdirOk) IN
          IF ~ing.created
            THEN /\ ret' = Result("WebRTCOffer", s, "Internal")
                 /\ UNCHANGED <<stream, pending>>
            ELSE /\ stream' = [stream EXCEPT
                                ![s].webrtcIngest = HandleOffer(ing, outcome)]
                 /\ IF outcome = "answered"
                      THEN /\ OrchRoom
                           /\ pending' = [pending EXCEPT ![s] = @ + 1]
                           /\ ret' = Result("WebRTCOffer", s, "ok")
                      ELSE /\ UNCHANGED pending
                           /\ ret' = Result("WebRTCOffer", s, "Internal")
  /\ UNCHANGED <<streams, viewer, orchs, Others>>

\* BroadcastHandler.startStreamOrchestrator up to the point where
\* StreamOrchestrator.Start has created its context
startStreamOrchestrator(s) ==
  /\ orchs' = Append(orchs, StartLock(NewStreamOrchestrator(s)))
  /\ stream' = [stream EXCEPT ![s].orchestrator = Len(orchs) + 1]

\* the goroutine spawned by WebRTCOffer, after its two-second sleep
DelayedStart(s) ==
  /\ s \in StreamIds
  /\ pending[s] > 0
  /\ pending' = [pending EXCEPT ![s] = @ - 1]
  /\ startStreamOrchestrator(s)
  /\ ret' = Result("DelayedStart", s, "ok")
  /\ UNCHANGED <<streams, viewer, Others>>

\* IngestService.HandleAnswer: fails without a peer connection; otherwise
\* the result is that of the peer connection's SetRemoteDescription, which
\* the code does not determine
HandleAnswerErr(ing, sdpOk) ==
  IF ~ing.peerConnection THEN "Internal"
  ELSE IF sdpOk THEN "ok" ELSE "Internal"

\* BroadcastHandler.WebRTCAnswer up to the point where
\* StreamOrchestrator.Start has created its context
WebRTCAnswer(s) ==
  /\ s \in StreamIds
  /\ \/ /\ ret' = Result("WebRTCAnswer", s, "InvalidArgument")
        /\ UNCHANGED <<stream, orchs>>
     \/ /\ s \notin streams
        /\ ret' = Result("WebRTCAnswer", s, "NotFound")
        /\ UNCHANGED <<stream, orchs>>
     \/ \E mkdirOk \in BOOLEAN, sdpOk \in BOOLEAN :
          LET ing == GetWebRTCIngest(stream[s].webrtcIngest, mkdirOk) IN
          IF ~ing.created \/ HandleAnswerErr(ing, sdpOk) /= "ok"
            THEN /\ stream' = [stream EXCEPT ![s].webrtcIngest = ing]
                 /\ ret' = Result("WebRTCAnswer", s, "Internal")
                 /\ UNCHANGED orchs
            ELSE /\ OrchRoom
                 /\ startStreamOrchestrator(s)
                 /\ ret' = Result("WebRTCAnswer", s, "ok")
  /\ UNCHANGED <<streams, viewer, pending, Others>>

\* StreamOrchestrator.Start of a handler's orchestrator: the readiness wait
\* and the encoder launch
OrchStartEncoder(o) ==
  /\ o \in OrchIds
  /\ orchs[o].pc = "encoder"
  /\ \E ready \in BOOLEAN, outcome \in EncoderOutcomes :
       /\ outcome = "dirs_failed"
            \/ Len(orchs[o].transcoder.scopes) < MaxScopes
       /\ orchs' = [orchs EXCEPT ![o] = StartEncoder(@, ready, outcome)]
       /\ ret' = Result("StartEncoder", o, StartEncoderErr(orchs[o], outcome))
  /\ UNCHANGED <<stream, streams, viewer, pending, Others>>

\* StreamOrchestrator.Start of a handler's orchestrator: the uploader
OrchStartUploader(o) ==
  /\ o \in OrchIds
  /\ orchs[o].pc = "uploader"
  /\ \E outcome \in UploaderOutcomes :
       /\ orchs' = [orchs EXCEPT ![o] = StartUploader(@, outcome)]
       /\ ret' = Result("StartUploader", o,
                        IF outcome = "started" THEN "ok" ELSE "error")
  /\ UNCHANGED <<stream, streams, viewer, pending, Others>>

\* an exit waiter that stops the stream of its orchestrator
Waiter_StopsStream(o, i) ==
  /\ o \in OrchIds
  /\ i \in AliveScopes(orchs[o].transcoder)
  /\ orchs' = [orchs EXCEPT ![o] = OrchWait(@, i)]
  /\ stream' = [stream EXCEPT ![orchs[o].streamID].Status = StatusStopped]
  /\ ret' = Result("Waiter", o, "ok")
  /\ UNCHANGED <<streams, viewer, pending, Others>>

\* the exit waiter of an encoder process of a handler's orchestrator
Waiter(o, i) ==
  /\ o \in OrchIds
  /\ i \in AliveScopes(orchs[o].transcoder)
  /\ orchs' = [orchs EXCEPT ![o] = OrchWait(@, i)]
  /\ ret' = Result("Waiter", o, "ok")
  /\ UNCHANGED <<stream, streams, viewer, pending, Others>>

\* ---- the readiness wait (pkg/orchestrator) --------------------------------
\* An input spec is a pipe-separated list of two files, one absolute path,
\* one relative path, or a URL.  The size of a file is -1 while os.Stat
\* fails on it.  polls counts the ticks of the 500 ms ticker the wait has
\* served; the 10 s timer fires together with the 20th tick.  seen tells
\* whether some served tick found every file the input spec names at 1024
\* bytes or more.
InputKinds == {"list", "absolute", "relative", "url"}
FileSizes == {-1, 1023, 1024}
TimeoutMs == 10000
TickMs == 500
ReadySize == 1024
TicksInWindow == TimeoutMs \div TickMs

\* the files the input spec names
InputFiles(kind) ==
  IF kind = "list" THEN {1, 2}
  ELSE IF kind \in {"absolute", "relative"} THEN {1}
  ELSE {}

\* filesToCheck of waitForInputFiles: a spec with a "|" is split, a spec
\* that starts with "/" is one file, any other spec is not waited for
FilesToCheck(kind) ==
  IF kind = "list" THEN {1, 2}
  ELSE IF kind = "absolute" THEN {1}
  ELSE {}

SkipsWait(kind) == kind \notin {"list", "absolute"}

\* the allReady loop of one tick
AllReady(kind, size) ==
  \A f \in FilesToCheck(kind) : ~(size[f] = -1 \/ size[f] < ReadySize)

NoWait ==
  [pc |-> "idle", kind |-> "url", size |-> [f \in {1, 2} |-> -1],
   polls |-> 0, seen |-> FALSE, result |-> "none"]

\* waitForInputFiles up to the first select
WaitBegin(kind) ==
  /\ wait.pc = "idle"
  /\ wait' = IF SkipsWait(kind)
               THEN [wait EXCEPT !.pc = "done", !.kind = kind,
                                 !.result = "ok"]
               ELSE [wait EXCEPT !.pc = "polling", !.kind = kind]
  /\ ret' = Result("waitForInputFiles", 0,
                   IF SkipsWait(kind) THEN "ok" ELSE "polling")
  /\ UNCHANGED <<Core, pos, hls>>

\* the ingest writing, truncating or removing an input file
FileWrite(f, n) ==
  /\ wait.pc \in {"idle", "polling"}
  /\ wait.size[f] /= n
  /\ wait' = [wait EXCEPT !.size[f] = n]
  /\ ret' = Result("FileWrite", f, "ok")
  /\ UNCHANGED <<Core, pos, hls>>

\* waitForInputFiles: the select takes the ticker case
WaitPoll ==
  /\ wait.pc = "polling"
  /\ wait.polls < TicksInWindow
  /\ LET ready == AllReady(wait.kind, wait.size)
         named == \A f \in InputFiles(wait.kind) : wait.size[f] >= ReadySize
     IN /\ wait' = [wait EXCEPT !.polls = @ + 1,
                                !.seen = @ \/ named,
                                !.pc = IF ready THEN "done" ELSE "polling",
                                !.result = IF ready THEN "ok" ELSE "none"]
        /\ ret' = Result("waitForInputFiles", 0,
                         IF ready THEN "ok" ELSE "polling")
  /\ UNCHANGED <<Core, pos, hls>>

\* waitForInputFiles: the select takes the timeout case
WaitTimeout ==
  /\ wait.pc = "polling"
  /\ wait.polls >= TicksInWindow - 1
  /\ wait' = [wait EXCEPT !.pc = "done", !.result = "Timeout"]
  /\ ret' = Result("waitForInputFiles", 0, "Timeout")
  /\ UNCHANGED <<Core, pos, hls>>

NextWait ==
  \/ \E kind \in InputKinds : WaitBegin(kind)
  \/ \E f \in {1, 2}, n \in FileSizes : FileWrite(f, n)
  \/ WaitPoll
  \/ WaitTimeout

\* ---- the playback position (pkg/broadcast) --------------------------------
\* uptime and VideoDuration are in half seconds, so that durations between
\* zero and one second exist; VideoDuration is 0 until it is set.
NewClock ==
  [StartedAt |-> FALSE, uptime |-> 0, VideoDuration |-> 0,
   panic |-> FALSE, position |-> 0]

\* the Go conversion int(x) of a float64 of x half seconds
ToInt(x) == IF x >= 0 THEN x \div Halves ELSE -((-x) \div Halves)

\* Stream.SetVideoDuration
SetVideoDuration(d) ==
  /\ pos.VideoDuration /= d
  /\ pos' = [pos EXCEPT !.VideoDuration = d]
  /\ ret' = Result("SetVideoDuration", d, "ok")
  /\ UNCHANGED <<Core, wait, hls>>

\* Stream.Start setting StartedAt
ClockStart ==
  /\ ~pos.StartedAt
  /\ pos' = [pos EXCEPT !.StartedAt = TRUE]
  /\ ret' = Result("Start", 0, "ok")
  /\ UNCHANGED <<Core, wait, hls>>

\* half a second passes
ClockTick ==
  /\ pos.StartedAt
  /\ pos.uptime < MaxUptime
  /\ pos' = [pos EXCEPT !.uptime = @ + 1]
  /\ ret' = Result("tick", 0, "ok")
  /\ UNCHANGED <<Core, wait, hls>>

\* Stream.GetCurrentPosition; the integer remainder by zero panics
GetCurrentPosition ==
  /\ pos' =
       IF ~pos.StartedAt \/ pos.VideoDuration <= 0
         THEN [pos EXCEPT !.panic = FALSE, !.position = 0]
       ELSE IF ToInt(pos.VideoDuration) = 0
         THEN [pos EXCEPT !.panic = TRUE, !.position = 0]
       ELSE [pos EXCEPT !.panic = FALSE,
                        !.position =
                           ToInt(pos.uptime) % ToInt(pos.VideoDuration)]
  /\ ret' = Result("GetCurrentPosition", 0,
                   IF pos.StartedAt /\ pos.VideoDuration > 0
                        /\ ToInt(pos.VideoDuration) = 0
                     THEN "panic" ELSE "ok")
  /\ UNCHANGED <<Core, wait, hls>>

NextPos ==
  \/ \E d \in -1..MaxDuration : SetVideoDuration(d)
  \/ ClockStart
  \/ ClockTick
  \/ GetCurrentPosition

\* ---- the HLS uploader (pkg/hls) and the bucket (pkg/storage) ---------------
\* One variant.  The encoder writes segment n and then the playlist that
\* lists the last PlaylistSize segments up to n.  Key 0 is the playlist, key
\* n > 0 is segment n.  written is the number of segments on disk, playlist
\* the newest segment the playlist on disk lists (0: no playlist yet), todo
\* the keys with a file event the uploader has not served yet, jobs the
\* uploads in flight (key and the version of the bytes read from disk),
\* segments the segments stored in the bucket and stored the version of the
\* playlist stored in the bucket (0: none).
PlaylistSize == 5

NewTree ==
  [written |-> 0, playlist |-> 0, todo |-> {}, jobs |-> <<>>,
   segments |-> {}, stored |-> 0]

\* the segments playlist version p lists
Refs(p) == {n \in 1..p : n > p - PlaylistSize}

\* an uploader that never holds an upload back for its key
KeyFree_Always(k) == TRUE

\* per-key serialization: no upload to key k is in flight
KeyFree(k) == \A i \in DOMAIN hls.jobs : hls.jobs[i].key /= k

\* an uploader that never holds a playlist back for its segments
RefsStored_Always(p) == TRUE

\* segment-before-playlist: the upload of every segment that playlist
\* version p lists has completed
RefsStored(p) == Refs(p) \subseteq hls.segments

\* the encoder closes segment written + 1
WriteSegment ==
  /\ hls.written < MaxSegments
  /\ hls.playlist = hls.written
  /\ hls' = [hls EXCEPT !.written = @ + 1,
                        !.todo = @ \cup {hls.written + 1}]
  /\ ret' = Result("WriteSegment", hls.written + 1, "ok")
  /\ UNCHANGED <<Core, wait, pos>>

\* the encoder rewrites the playlist
WritePlaylist ==
  /\ hls.playlist < hls.written
  /\ hls' = [hls EXCEPT !.playlist = hls.written, !.todo = @ \cup {0}]
  /\ ret' = Result("WritePlaylist", hls.written, "ok")
  /\ UNCHANGED <<Core, wait, pos>>

\* the uploader serves the event of key k: GCSService.UploadHLSSegment or
\* UploadHLSPlaylist opens the file and copies what it holds now
Dispatch(k) ==
  /\ k \in hls.todo
  /\ KeyFree(k)
  /\ k = 0 => RefsStored(hls.playlist)
  /\ hls' = [hls EXCEPT
               !.todo = @ \ {k},
               !.jobs = Append(@, [key |-> k,
                                   ver |-> IF k = 0 THEN hls.playlist
                                           ELSE 1])]
  /\ ret' = Result("Dispatch", k, "ok")
  /\ UNCHANGED <<Core, wait, pos>>

\* upload i ends: the writer is closed and the object holds the bytes
\* copied, or the upload has failed for good and the artifact is dropped
Finish(i, ok) ==
  /\ i \in DOMAIN hls.jobs
  /\ LET job == hls.jobs[i]
         rest == [j \in 1..(Len(hls.jobs) - 1) |->
                    IF j < i THEN hls.jobs[j] ELSE hls.jobs[j + 1]]
     IN /\ hls' = [hls EXCEPT
                     !.jobs = rest,
                     !.segments = IF ok /\ job.key /= 0
                                    THEN @ \cup {job.key} ELSE @,
                     !.stored = IF ok /\ job.key = 0 THEN job.ver ELSE @]
        /\ ret' = Result("Finish", job.key, IF ok THEN "ok" ELSE "dropped")
  /\ UNCHANGED <<Core, wait, pos>>

NextHLS ==
  \/ WriteSegment
  \/ WritePlaylist
  \/ \E k \in 0..MaxSegments : Dispatch(k)
  \/ \E i \in 1..(MaxSegments + 1), ok \in BOOLEAN : Finish(i, ok)

\* ---- the ingest session driven through its API (pkg/webrtc) ----------------
\* handles are the peer connections the session has allocated, oldest first:
\* "new" (no description set), "local" (the local offer is set), "stable"
\* (both descriptions are set) or "closed"; peerConnection is the index of the
\* one the session points to (0 for nil); closed is the session's closed flag.
NewIngestService == [handles |-> <<>>, peerConnection |-> 0, closed |-> FALSE]

\* webrtc.NewPeerConnection and the assignment s.peerConnection = peerConnection
PeerAlloc(g, state) ==
  [g EXCEPT !.handles = Append(@, state),
            !.peerConnection = Len(g.handles) + 1]

\* IngestService.CreateOffer: "sdp_failed" stands for a failure of
\* CreateOffer or SetLocalDescription on the new peer connection
SessCreateOffer(g, outcome) ==
  IF outcome = "peer_failed" THEN g
  ELSE IF outcome = "sdp_failed" THEN PeerAlloc(g, "new")
  ELSE PeerAlloc(g, "local")

\* IngestService.HandleOffer: "sdp_failed" stands for a failure of
\* SetRemoteDescription, CreateAnswer or SetLocalDescription
SessHandleOffer(g, outcome) ==
  IF outcome = "peer_failed" THEN g
  ELSE IF outcome = "sdp_failed" THEN PeerAlloc(g, "new")
  ELSE PeerAlloc(g, "stable")

\* IngestService.HandleAnswer: the error it returns; the peer connection
\* accepts a remote answer only while its local offer is pending
SessHandleAnswerErr(g, sdpOk) ==
  IF g.peerConnection = 0 THEN "Internal"
  ELSE IF g.handles[g.peerConnection] = "local" /\ sdpOk THEN "ok"
  ELSE "Internal"

\* IngestService.HandleAnswer
SessHandleAnswer(g, sdpOk) ==
  IF SessHandleAnswerErr(g, sdpOk) = "ok"
    THEN [g EXCEPT !.handles[g.peerConnection] = "stable"]
    ELSE g

\* IngestService.CloseConnection
SessCloseConnection(g) ==
  IF g.closed THEN g
  ELSE IF g.peerConnection /= 0
    THEN [g EXCEPT !.handles[g.peerConnection] = "closed", !.closed = TRUE]
    ELSE [g EXCEPT !.closed = TRUE]

IngCreateOffer ==
  /\ \E outcome \in OfferOutcomes :
       /\ outcome = "peer_failed" \/ Len(ingest.handles) < MaxPeers
       /\ ingest' = SessCreateOffer(ingest, outcome)
       /\ ret' = Result("Ingest.CreateOffer", 0,
                        IF outcome = "answered" THEN "ok" ELSE "error")
  /\ UNCHANGED <<Rest, lk>>

IngHandleOffer ==
  /\ \E outcome \in OfferOutcomes :
       /\ outcome = "peer_failed" \/ Len(ingest.handles) < MaxPeers
       /\ ingest' = SessHandleOffer(ingest, outcome)
       /\ ret' = Result("Ingest.HandleOffer", 0,
                        IF outcome = "answered" THEN "ok" ELSE "error")
  /\ UNCHANGED <<Rest, lk>>

IngHandleAnswer ==
  /\ \E sdpOk \in BOOLEAN :
       /\ ingest' = SessHandleAnswer(ingest, sdpOk)
       /\ ret' = Result("Ingest.HandleAnswer", 0,
                        SessHandleAnswerErr(ingest, sdpOk))
  /\ UNCHANGED <<Rest, lk>>

IngCloseConnection ==
  /\ ingest' = SessCloseConnection(ingest)
  /\ ret' = Result("Ingest.CloseConnection", 0, "ok")
  /\ UNCHANGED <<Rest, lk>>

NextSess ==
  \/ IngCreateOffer
  \/ IngHandleOffer
  \/ IngHandleAnswer
  \/ IngCloseConnection

\* ---- the mutexes ------------------------------------------------------------
\* The locks of the registry ("bm", BroadcastManager.mu), of a stream ("s",
\* Stream.mu), of a viewer ("v", Viewer.mu), of an orchestrator ("o",
\* StreamOrchestrator.mu) and of its transcoder ("t", FFmpegTranscoder.mu),
\* and the goroutines that run the methods taking them.  A goroutine is the
\* locks it holds, in the order it took them, the lock and unlock calls its
\* method has still to make, and whether its pending Lock on a sync.RWMutex
\* has been announced to the readers.
RWLocks == {"bm", "s"}

NoLocks ==
  [th \in 1..MaxThreads |-> [held |-> <<>>, todo |-> <<>>, asked |-> FALSE]]

Ins(a, l) == [a |-> a, l |-> l]

\* l.Lock(); body; l.Unlock()
Section(l, body) == <<Ins("Lock", l)>> \o body \o <<Ins("Unlock", l)>>

\* l.RLock(); body; l.RUnlock()
RSection(l, body) == <<Ins("RLock", l)>> \o body \o <<Ins("RUnlock", l)>>

LockedOps ==
  {"CreateStream", "GetStream", "ListStreams", "DeleteStream", "Start",
   "Stop", "AddViewer", "RemoveViewer", "Broadcast", "GetStats",
   "broadcastLoop", "OrchStart", "OrchStop", "OrchGetStats", "Waiter"}

\* Stream.Stop: rejected, or closing the queue of a viewer under its lock
StopPaths == {Section("s", <<>>), Section("s", Section("v", <<>>))}

\* RemoveViewer taking the viewer's lock before the stream's
LockPaths_ViewerFirst(f) ==
  CASE f \in {"CreateStream"} -> {Section("bm", <<>>)}
    [] f \in {"GetStream", "ListStreams"} -> {RSection("bm", <<>>)}
    [] f = "DeleteStream" ->
         {Section("bm", <<>>)} \cup {Section("bm", p) : p \in StopPaths}
    [] f \in {"Start", "AddViewer"} -> {Section("s", <<>>)}
    [] f = "Stop" -> StopPaths
    [] f = "RemoveViewer" -> {Section("v", Section("s", <<>>))}
    [] f = "Broadcast" -> {<<>>}
    [] f = "GetStats" ->
         {RSection("s", <<>>), RSection("s", Section("o", <<>>))}
    [] f = "broadcastLoop" -> {RSection("s", <<>>)}
    [] f = "OrchStart" ->
         {Section("o", <<>>), Section("o", Section("t", <<>>)),
          Section("o", Section("t", <<>>) \o Section("t", <<>>))}
    [] f = "OrchStop" -> {Section("o", <<>>), Section("o", Section("t", <<>>))}
    [] f = "OrchGetStats" -> {Section("o", <<>>)}
    [] f = "Waiter" -> {Section("t", <<>>)}

\* the lock and unlock calls of each method, one sequence per branch of the
\* method: DeleteStream calls Stop when the stream is Streaming; Stop and
\* RemoveViewer lock the viewer they close; GetStats calls the GetStats of
\* the orchestrator when the stream has one; Start of the orchestrator calls
\* StartHLSTranscoding and, when the uploader fails, the Stop of the
\* transcoder; Stop of the orchestrator calls it when running; Broadcast
\* takes no lock.
LockPaths(f) ==
  CASE f \in {"CreateStream"} -> {Section("bm", <<>>)}
    [] f \in {"GetStream", "ListStreams"} -> {RSection("bm", <<>>)}
    [] f = "DeleteStream" ->
         {Section("bm", <<>>)} \cup {Section("bm", p) : p \in StopPaths}
    [] f \in {"Start", "AddViewer"} -> {Section("s", <<>>)}
    [] f = "Stop" -> StopPaths
    [] f = "RemoveViewer" -> StopPaths
    [] f = "Broadcast" -> {<<>>}
    [] f = "GetStats" ->
         {RSection("s", <<>>), RSection("s", Section("o", <<>>))}
    [] f = "broadcastLoop" -> {RSection("s", <<>>)}
    [] f = "OrchStart" ->
         {Section("o", <<>>), Section("o", Section("t", <<>>)),
          Section("o", Section("t", <<>>) \o Section("t", <<>>))}
    [] f = "OrchStop" -> {Section("o", <<>>), Section("o", Section("t", <<>>))}
    [] f = "OrchGetStats" -> {Section("o", <<>>)}
    [] f = "Waiter" -> {Section("t", <<>>)}

\* the goroutines that hold lock l in mode m ("W" or "R")
Holders(l, m) ==
  {th \in DOMAIN lk : \E i \in DOMAIN lk[th].held :
                         lk[th].held[i] = [l |-> l, m |-> m]}

\* the goroutines whose Lock on the RWMutex l is pending
Asking(l) ==
  {th \in DOMAIN lk : /\ lk[th].asked
                       /\ lk[th].todo /= <<>>
                       /\ Head(lk[th].todo).l = l}

\* sync.Mutex and sync.RWMutex: whether the call goroutine th is about to
\* make returns now.  Lock waits for every holder; RLock waits for the
\* writer and for every pending Lock.
Granted(th) ==
  LET i == Head(lk[th].todo)
  IN CASE i.a = "Lock" -> Holders(i.l, "W") \cup Holders(i.l, "R") = {}
       [] i.a = "RLock" -> Holders(i.l, "W") = {} /\ Asking(i.l) = {}
       [] OTHER -> TRUE

\* a goroutine enters a method
LkCall(th) ==
  /\ lk[th].todo = <<>>
  /\ \E f \in LockedOps : \E p \in LockPaths(f) :
       lk' = [lk EXCEPT ![th].todo = p]
  /\ ret' = Result("lock", 0, "ok")
  /\ UNCHANGED <<Rest, ingest>>

\* sync.RWMutex.Lock: the pending writer is announced to the readers
LkAsk(th) ==
  /\ lk[th].todo /= <<>>
  /\ Head(lk[th].todo).a = "Lock"
  /\ Head(lk[th].todo).l \in RWLocks
  /\ ~lk[th].asked
  /\ lk' = [lk EXCEPT ![th].asked = TRUE]
  /\ ret' = Result("lock", 0, "ok")
  /\ UNCHANGED <<Rest, ingest>>

\* whether goroutine th, which is in a method, can take a step
CanStep(th) ==
  LET i == Head(lk[th].todo)
  IN \/ i.a = "Lock" /\ i.l \in RWLocks /\ ~lk[th].asked
     \/ Granted(th)

\* the next lock or unlock call of goroutine th returns
LkStep(th) ==
  /\ lk[th].todo /= <<>>
  /\ LET i == Head(lk[th].todo)
         h == lk[th].held
     IN /\ (i.a = "Lock" /\ i.l \in RWLocks) => lk[th].asked
        /\ Granted(th)
        /\ lk' = [lk EXCEPT
                    ![th].todo = Tail(@),
                    ![th].asked = FALSE,
                    ![th].held =
                       IF i.a = "Lock" THEN Append(h, [l |-> i.l, m |-> "W"])
                       ELSE IF i.a = "RLock"
                         THEN Append(h, [l |-> i.l, m |-> "R"])
                       ELSE SubSeq(h, 1, Len(h) - 1)]
  /\ ret' = Result("lock", 0, "ok")
  /\ UNCHANGED <<Rest, ingest>>

NextLock ==
  \/ \E th \in 1..MaxThreads : LkCall(th)
  \/ \E th \in 1..MaxThreads : LkAsk(th)
  \/ \E th \in 1..MaxThreads : LkStep(th)

\* ---- the server ------------------------------------------------------------
Init ==
  /\ stream = <<>>
  /\ streams = {}
  /\ viewer = <<>>
  /\ orchs = <<>>
  /\ pending = <<>>
  /\ orch = NewStreamOrchestrator(0)
  /\ enc = NewFFmpegTranscoder
  /\ chunks = <<>>
  /\ wait = NoWait
  /\ pos = NewClock
  /\ hls = NewTree
  /\ ingest = NewIngestService
  /\ lk = NoLocks
  /\ ret = Result("init", 0, "ok")

Next ==
  \/ HCreateStream
  \/ \E s \in 1..MaxStreams : StartStream(s)
  \/ \E s \in 1..MaxStreams : StopStream(s)
  \/ \E s \in 1..MaxStreams : DeleteStream(s)
  \/ \E s \in 1..MaxStreams : WatchStream(s)
  \/ \E s \in 1..MaxStreams, v \in 1..MaxViewers : WatchDone(s, v)
  \/ \E s \in 1..MaxStreams : LoopExit(s)
  \/ \E s \in 1..MaxStreams : WebRTCOffer(s)
  \/ \E s \in 1..MaxStreams : DelayedStart(s)
  \/ \E s \in 1..MaxStreams : WebRTCAnswer(s)
  \/ \E o \in 1..MaxOrch : OrchStartEncoder(o)
  \/ \E o \in 1..MaxOrch : OrchStartUploader(o)
  \/ \E o \in 1..MaxOrch, i \in 1..MaxScopes : Waiter(o, i)

Spec == Init /\ [][Next]_vars

\* ---- the registry, the stream lifecycle and the subscribers alone ----------
\* The server restricted to the handlers that reach the subscriber set and
\* the stream status; none of them reads or writes an orchestrator.
NextStream ==
  \/ HCreateStream
  \/ \E s \in 1..MaxStreams : StartStream(s)
  \/ \E s \in 1..MaxStreams : StopStream(s)
  \/ \E s \in 1..MaxStreams : DeleteStream(s)
  \/ \E s \in 1..MaxStreams : WatchStream(s)
  \/ \E s \in 1..MaxStreams, v \in 1..MaxViewers : WatchDone(s, v)
  \/ \E s \in 1..MaxStreams : LoopExit(s)

SpecStream == Init /\ [][NextStream]_vars

\* ---- the lifecycle of one stream ----------------------------------------------
\* SpecStream restricted to the first stream created (no step of one stream
\* reads or writes another stream).
NextLife ==
  \/ HCreateStream
  \/ StartStream(1)
  \/ StopStream(1)
  \/ DeleteStream(1)
  \/ WatchStream(1)
  \/ \E v \in 1..MaxViewers : WatchDone(1, v)
  \/ LoopExit(1)

SpecLife == Init /\ [][NextLife]_vars

\* ---- the bus alone --------------------------------------------------------
\* The server restricted to the handlers and the goroutine that reach the bus
\* of a stream, with a broadcaster that goes on until the bus is full.
NextBus ==
  \/ HCreateStream
  \/ \E s \in 1..MaxStreams : StartStream(s)
  \/ \E s \in 1..MaxStreams : BlankChunk(s)
  \/ \E s \in 1..MaxStreams : LoopTake(s)
  \/ \E s \in 1..MaxStreams, i \in 1..MaxStarts : LoopDeliver(s, i)

SpecBus == Init /\ [][NextBus]_vars

\* ---- broadcast, fan-out, subscribe and unsubscribe -------------------------
\* The server restricted to the handlers and goroutines that move a frame
\* from a broadcaster to the clients of the subscribers, and to the first
\* stream created (no step of one stream reads or writes another stream).
NextFan ==
  \/ HCreateStream
  \/ StartStream(1)
  \/ NumberedChunk(1)
  \/ LoopTake(1)
  \/ LoopDeliver(1, 1)
  \/ WatchStream(1)
  \/ \E v \in 1..MaxViewers : WatchDone(1, v)
  \/ \E v \in 1..MaxViewers : Receive(1, v)

SpecFan == Init /\ [][NextFan]_vars

\* Every broadcastLoop and every WatchStream delivery loop is a goroutine of
\* its own, and the Go scheduler runs every goroutine that stays runnable.
FairFan ==
  /\ WF_vars(LoopTake(1))
  /\ WF_vars(LoopDeliver(1, 1))
  /\ \A v \in 1..MaxViewers : WF_vars(Receive(1, v))

SpecFanFair == SpecFan /\ FairFan

\* ---- the fan-out loop and the shutdown signal --------------------------------
\* The first stream created, started and stopped, with a broadcaster that
\* never stops sending and the loops of the stream.
NextLoop ==
  \/ HCreateStream
  \/ StartStream(1)
  \/ StopStream(1)
  \/ BlankChunk(1)
  \/ LoopTake(1)
  \/ \E i \in 1..MaxStarts : LoopDeliver(1, i)
  \/ LoopExit(1)

SpecLoop == Init /\ [][NextLoop]_vars

\* A loop that has received a frame goes on to offer it (its goroutine stays
\* runnable).  A loop in its select with stopChan closed takes the stopChan
\* case whenever the bus is empty, and when the bus holds a frame the select
\* chooses between the two ready cases at random, so a loop that comes back
\* to its select again and again takes the stopChan case in the end.
FairLoop ==
  /\ \A i \in 1..MaxStarts : WF_vars(LoopDeliver(1, i))
  /\ SF_vars(LoopExit(1))

SpecLoopFair == SpecLoop /\ FairLoop

\* ---- the fan-out loop, the subscribers and the shutdown ---------------------
\* The first stream created, with its subscribers, its broadcasters and its
\* loops, started and stopped in any order.
NextShut ==
  \/ HCreateStream
  \/ StartStream(1)
  \/ StopStream(1)
  \/ WatchStream(1)
  \/ \E v \in 1..MaxViewers : WatchDone(1, v)
  \/ NumberedChunk(1)
  \/ LoopTake(1)
  \/ \E i \in 1..MaxStarts : LoopDeliver(1, i)
  \/ LoopExit(1)

SpecShut == Init /\ [][NextShut]_vars

\* ---- the delivery loops of the subscribers ------------------------------------
\* The first stream created, started and stopped, with a broadcaster that
\* sends one chunk, the loops of the stream, its subscribers and their
\* clients, which leave when they like.
NextWatch ==
  \/ HCreateStream
  \/ StartStream(1)
  \/ StopStream(1)
  \/ FirstChunk(1)
  \/ LoopTake(1)
  \/ \E i \in 1..MaxStarts : LoopDeliver(1, i)
  \/ LoopExit(1)
  \/ WatchStream(1)
  \/ \E v \in 1..MaxViewers : ClientClosed(1, v)
  \/ \E v \in 1..MaxViewers : Receive(1, v)
  \/ \E v \in 1..MaxViewers : WatchReturn(1, v)

SpecWatch == Init /\ [][NextWatch]_vars

\* Every WatchStream delivery loop is a goroutine of its own that stays
\* runnable while a case of its select is ready; a ready clientClosed case
\* stays ready, and nothing is sent on a closed queue that is being drained.
FairWatch ==
  \A v \in 1..MaxViewers :
    /\ WF_vars(Receive(1, v))
    /\ WF_vars(WatchReturn(1, v))

SpecWatchFair == SpecWatch /\ FairWatch

\* ---- the negotiation handlers alone ----------------------------------------
\* The server restricted to the registry and the two negotiation handlers,
\* with the goroutine the offer handler spawns; every orchestrator stays
\* where startStreamOrchestrator has entered Start.
NextNeg ==
  \/ HCreateStream
  \/ \E s \in 1..MaxStreams : DeleteStream(s)
  \/ \E s \in 1..MaxStreams : WebRTCOffer(s)
  \/ \E s \in 1..MaxStreams : DelayedStart(s)
  \/ \E s \in 1..MaxStreams : WebRTCAnswer(s)

SpecNeg == Init /\ [][NextNeg]_vars

\* ---- the ingest session driven through its API -------------------------------
\* IngestService.CloseConnection on the session of a stream; no code of the
\* server calls it, a client of the package does
ApiCloseConnection(s) ==
  /\ s \in StreamIds
  /\ stream[s].webrtcIngest.created
  /\ stream' = [stream EXCEPT ![s].webrtcIngest = CloseConnection(@)]
  /\ ret' = Result("CloseConnection", s, "ok")
  /\ UNCHANGED <<streams, viewer, orchs, pending, Others>>

\* The negotiation handlers, which create the session and its peer handle,
\* and a client that closes the session at any time.
NextIngest ==
  \/ HCreateStream
  \/ \E s \in 1..MaxStreams : WebRTCOffer(s)
  \/ \E s \in 1..MaxStreams : WebRTCAnswer(s)
  \/ \E s \in 1..MaxStreams : ApiCloseConnection(s)

SpecIngest == Init /\ [][NextIngest]_vars

\* ---- a stream and the pipelines started for it -------------------------------
\* The server restricted to the first stream created: its start, its
\* subscribers, the offer handler and the pipeline starts it schedules, and
\* the steps and the exit waiter of the first pipeline started (the later
\* ones stay inside Start).
NextPipe ==
  \/ HCreateStream
  \/ StartStream(1)
  \/ WatchStream(1)
  \/ WebRTCOffer(1)
  \/ DelayedStart(1)
  \/ OrchStartEncoder(1)
  \/ OrchStartUploader(1)
  \/ \E i \in 1..MaxScopes : Waiter(1, i)

SpecPipe == Init /\ [][NextPipe]_vars

\* ---- the orchestrator and the encoder supervisor driven through their API --
\* StreamOrchestrator.Start: entry, running check and context creation
ApiStart ==
  /\ orch.pc = "none"
  /\ orch.running \/ orch.gen < MaxStarts
  /\ orch' = StartLock(orch)
  /\ ret' = Result("Orchestrator.Start", 0, StartLockErr(orch))
  /\ UNCHANGED <<enc, Server>>

\* StreamOrchestrator.Start: the readiness wait and the encoder launch
ApiStartEncoder ==
  /\ orch.pc = "encoder"
  /\ \E ready \in BOOLEAN, outcome \in EncoderOutcomes :
       /\ outcome = "dirs_failed" \/ Len(orch.transcoder.scopes) < MaxScopes
       /\ orch' = StartEncoder(orch, ready, outcome)
       /\ ret' = Result("StartEncoder", 0, StartEncoderErr(orch, outcome))
  /\ UNCHANGED <<enc, Server>>

\* StreamOrchestrator.Start: the uploader
ApiStartUploader ==
  /\ orch.pc = "uploader"
  /\ \E outcome \in UploaderOutcomes :
       /\ orch' = StartUploader(orch, outcome)
       /\ ret' = Result("StartUploader", 0,
                        IF outcome = "started" THEN "ok" ELSE "error")
  /\ UNCHANGED <<enc, Server>>

\* StreamOrchestrator.Stop
ApiStop ==
  /\ orch.pc = "none"
  /\ \E uerr \in BOOLEAN :
       /\ orch' = OrchStop(orch, uerr)
       /\ ret' = [Result("Orchestrator.Stop", 0, "ok")
                   EXCEPT !.calls = OrchStopRun(orch, uerr).calls]
  /\ UNCHANGED <<enc, Server>>

\* the exit waiter of an encoder process of the orchestrator
ApiWaiter(i) ==
  /\ i \in AliveScopes(orch.transcoder)
  /\ orch' = OrchWait(orch, i)
  /\ \E err \in WaitErrs(orch.transcoder.scopes[i]) :
       ret' = Result("Waiter", 0, ExitReport(orch.transcoder.scopes[i], err))
  /\ UNCHANGED <<enc, Server>>

\* FFmpegTranscoder.StartHLSTranscoding on the stand-alone transcoder, under
\* context.Background()
EncStart ==
  /\ \E outcome \in EncoderOutcomes :
       /\ enc.running \/ outcome = "dirs_failed"
            \/ Len(enc.scopes) < MaxScopes
       /\ enc' = StartHLSTranscoding(enc, 0, outcome)
       /\ ret' = Result("StartHLSTranscoding", 0,
                        StartHLSTranscodingErr(enc, outcome))
  /\ UNCHANGED <<orch, Server>>

\* FFmpegTranscoder.Stop on the stand-alone transcoder
EncStop ==
  /\ enc' = FFmpegStop(enc)
  /\ ret' = Result("Transcoder.Stop", 0, "ok")
  /\ UNCHANGED <<orch, Server>>

\* the exit waiter of a process of the stand-alone transcoder
EncWaiter(i) ==
  /\ i \in AliveScopes(enc)
  /\ enc' = WaitExit(enc, i)
  /\ \E err \in WaitErrs(enc.scopes[i]) :
       ret' = Result("EncWaiter", 0, ExitReport(enc.scopes[i], err))
  /\ UNCHANGED <<orch, Server>>

NextOrch ==
  \/ ApiStart
  \/ ApiStartEncoder
  \/ ApiStartUploader
  \/ ApiStop
  \/ \E i \in 1..MaxScopes : ApiWaiter(i)
  \/ EncStart
  \/ EncStop
  \/ \E i \in 1..MaxScopes : EncWaiter(i)

SpecOrch == Init /\ [][NextOrch]_vars

\* ---- one Start of the orchestrator with its readiness wait -------------------
\* StreamOrchestrator.Start with the wait it makes spelled out: the call
\* enters, waitForInputFiles runs while the ingest writes the input files,
\* and the encoder launch follows the return of the wait.
SeqStart ==
  /\ wait.pc = "idle"
  /\ ApiStart

\* Start calls waitForInputFiles once the context is made
SeqWaitBegin(kind) ==
  /\ orch.pc = "encoder"
  /\ WaitBegin(kind)

\* a Start that launches the encoder without the readiness wait
SeqStartEncoder_NoWait ==
  /\ ApiStartEncoder

\* Start goes on to StartHLSTranscoding when waitForInputFiles has returned;
\* an error of the wait is the warning
SeqStartEncoder ==
  /\ wait.pc = "done"
  /\ ApiStartEncoder
  /\ orch'.warned = (wait.result /= "ok")

NextStart ==
  \/ SeqStart
  \/ \E kind \in InputKinds : SeqWaitBegin(kind)
  \/ \E f \in {1, 2}, n \in FileSizes : FileWrite(f, n)
  \/ WaitPoll
  \/ WaitTimeout
  \/ SeqStartEncoder
  \/ ApiStartUploader
  \/ \E i \in 1..MaxScopes : ApiWaiter(i)

SpecStart == Init /\ [][NextStart]_vars

\* ---- the readiness wait and the playback position driven on their own -----
SpecWait == Init /\ [][NextWait]_vars

SpecPos == Init /\ [][NextPos]_vars

\* ---- the encoder output, the uploader and the bucket driven on their own --
SpecLock == Init /\ [][NextLock]_vars

SpecSess == Init /\ [][NextSess]_vars

SpecHLS == Init /\ [][NextHLS]_vars

\* ---- properties -------------------------------------------------------------
StatusRank(st) == IF st = StatusIdle THEN 0
                  ELSE IF st = StatusStreaming THEN 1 ELSE 2

\* the orchestrators created for stream s that are running, are inside Start
\* past the encoder launch, or own a live encoder process
ActiveOrchs(s) ==
  {o \in OrchIds : /\ orchs[o].streamID = s
                   /\ \/ orchs[o].running
                      \/ AliveScopes(orchs[o].transcoder) /= {}}

\* C1: the status of every stream only moves along Idle -> Streaming ->
\* Stopped; in particular a Stopped stream never becomes Streaming again.
C1_StatusMonotone ==
  [][\A s \in DOMAIN stream :
       StatusRank(stream'[s].Status) >= StatusRank(stream[s].Status)]_vars

\* C2: a stream whose status is Streaming has an orchestrator bound to it and
\* that orchestrator is running.
C2_StreamingHasOrchestrator ==
  \A s \in StreamIds :
    stream[s].Status = StatusStreaming =>
      /\ stream[s].orchestrator /= 0
      /\ orchs[stream[s].orchestrator].running

\* C3: at no time are two orchestrators, or two encoder processes, of the
\* same stream running.
C3_SingleOrchestrator ==
  \A s \in StreamIds : Cardinality(ActiveOrchs(s)) <= 1

\* C4: when stop(X) has returned success, the orchestrator bound to X is not
\* running, its encoder has no live uncancelled process and its uploader is
\* not watching.
C4_StopStopsPipeline ==
  (ret.op = "StopStream" /\ ret.err = "ok") =>
    LET o == stream[ret.id].orchestrator IN
    o /= 0 =>
      /\ ~orchs[o].running
      /\ orchs[o].uploader /= "watching"
      /\ \A i \in AliveScopes(orchs[o].transcoder) :
           orchs[o].transcoder.scopes[i].cancelled

\* C5: once a stream has been deleted from the registry, no orchestrator
\* created for it is running, is being started, or owns a live encoder
\* process.
C5_DeleteReleasesPipeline ==
  \A s \in StreamIds \ streams :
    /\ ActiveOrchs(s) = {}
    /\ \A o \in OrchIds : orchs[o].streamID = s => orchs[o].pc = "none"

\* C6: for every stream, registered or not, ViewerCount equals the number of
\* entries of the subscriber set.
C6_ViewerCountIsCardinality ==
  \A s \in StreamIds : stream[s].ViewerCount = Cardinality(stream[s].viewers)

C6_Witness ==
  \E s \in StreamIds :
    /\ stream[s].Status = StatusStopped
    /\ stream[s].ViewerCount = 1
    /\ Len(viewer) = 2

\* C7: no subscriber queue is ever closed twice; a successful stop (directly
\* or through deleteStream) leaves every subscriber attached at that time
\* closed, closed exactly once; and as long as no start follows a stop, the
\* shutdown signal is not closed twice, so stop never panics.
C7_QueuesClosedOnce ==
  /\ [](\A v \in ViewerIds : viewer[v].closes <= 1)
  /\ [](\A s \in StreamIds : stream[s].starts <= 1 => stream[s].stopChan <= 1)
  /\ [][(ret'.op \in {"StopStream", "DeleteStream"} /\ ret'.err = "ok"
           /\ ret'.id \in StreamIds
           /\ stream[ret'.id].Status = StatusStreaming)
        => \A v \in stream[ret'.id].viewers :
              viewer'[v].closed /\ viewer'[v].closes = 1]_vars

\* a second stop after a stop that closed an attached subscriber
C7_Witness ==
  /\ ret.op = "StopStream"
  /\ ret.err = "IllegalState"
  /\ stream[ret.id].Status = StatusStopped
  /\ stream[ret.id].starts = 1
  /\ \E v \in stream[ret.id].viewers : viewer[v].closed /\ viewer[v].closes = 1

\* C8: the shutdown signal of a stream is closed at most once.
C8_StopChanClosedOnce ==
  \A s \in StreamIds : stream[s].stopChan <= 1

\* C9: a start on a running orchestrator fails with AlreadyRunning and leaves
\* the orchestrator (running flag, context, uploader, encoder and its
\* processes) as it was; a start on a running encoder supervisor fails with
\* AlreadyRunning and leaves the supervisor as it was.
C9_DuplicateStart ==
  [][/\ (ret'.op = "Orchestrator.Start" /\ orch.running)
          => (ret'.err = "AlreadyRunning" /\ orch' = orch)
     /\ (ret'.op = "StartHLSTranscoding" /\ enc.running)
          => (ret'.err = "AlreadyRunning" /\ enc' = enc)]_vars

C9_Witness ==
  /\ ret = Result("Orchestrator.Start", 0, "AlreadyRunning")
  /\ orch.running
  /\ orch.ctx = "active"
  /\ Cardinality(AliveScopes(orch.transcoder)) = 1
  /\ enc.running

\* C10: a stop on an orchestrator that is not running returns success and
\* leaves it as it was, likewise for the encoder supervisor, and a second
\* stop leaves the state the first one left.
C10_StopIdempotent ==
  /\ [][/\ (ret'.op = "Orchestrator.Stop" /\ ~orch.running)
             => (ret'.err = "ok" /\ orch' = orch)
        /\ (ret'.op = "Transcoder.Stop" /\ ~enc.running)
             => (ret'.err = "ok" /\ enc' = enc)]_vars
  /\ [](\A e, f \in BOOLEAN :
          OrchStop(OrchStop(orch, e), f) = OrchStop(orch, e))
  /\ [](FFmpegStop(FFmpegStop(enc)) = FFmpegStop(enc))

\* a stop issued after a start that failed at the uploader
C10_Witness ==
  /\ ret = Result("Orchestrator.Stop", 0, "ok")
  /\ ~orch.running
  /\ orch.ctx = "active"
  /\ orch.uploader = "created"

\* a is b with some of its elements left out
RECURSIVE IsSubseq(_, _)
IsSubseq(a, b) ==
  IF a = <<>> THEN TRUE
  ELSE IF b = <<>> THEN FALSE
  ELSE IF Head(a) = Head(b) THEN IsSubseq(Tail(a), Tail(b))
  ELSE IsSubseq(a, Tail(b))

Range(q) == {q[i] : i \in DOMAIN q}

\* the numbered chunks the bus of stream s has accepted, in the order of
\* acceptance
Enqueued(s) ==
  SelectSeq([i \in 1..Len(chunks) |-> i],
            LAMBDA i : chunks[i].stream = s /\ chunks[i].case = "enqueued")

\* what a subscriber has been handed so far: the frames written to its
\* client, then the frames waiting in its queue
Seen(v) == viewer[v].received \o viewer[v].DataChan

\* C11: what each subscriber has been handed (written to its client or
\* waiting in its queue) is, in order, a subsequence of the frames the bus of
\* one stream has accepted, and holds no frame twice, whatever the
\* interleaving of broadcast, fan-out, subscribe and unsubscribe.
C11_SubscriberSeesSubsequence ==
  \A v \in ViewerIds :
    /\ \E s \in StreamIds : IsSubseq(Seen(v), Enqueued(s))
    /\ Cardinality(Range(Seen(v))) = Len(Seen(v))

\* a subscriber attached after the first frame went out has been written the
\* second only, and another one both
C11_Witness ==
  \E v, w \in ViewerIds :
    /\ viewer[v].received = <<2>>
    /\ viewer[w].received = <<1, 2>>

\* C12: an UploadStreamChunk that reaches Broadcast completes in one step:
\* when the bus holds fewer than 100 frames the frame is appended to it, when
\* it holds 100 the bus is left as it is; the bus never holds more than 100.
C12_BroadcastNeverBlocks ==
  /\ [](\A s \in StreamIds : Len(stream[s].broadcast) <= BusCap)
  /\ [][\A s \in StreamIds :
         (ret'.op = "UploadStreamChunk" /\ ret'.id = s
            /\ ret'.err \in {"enqueued", "dropped"})
         => /\ Len(stream[s].broadcast) < BusCap
               => /\ ret'.err = "enqueued"
                  /\ stream'[s].broadcast = Append(stream[s].broadcast, 0)
            /\ Len(stream[s].broadcast) = BusCap
               => /\ ret'.err = "dropped"
                  /\ stream'[s].broadcast = stream[s].broadcast]_vars

\* a chunk has just been dropped on a full bus
C12_Witness ==
  /\ ret.op = "UploadStreamChunk"
  /\ ret.err = "dropped"
  /\ Len(stream[ret.id].broadcast) = BusCap
  /\ stream[ret.id].Status = StatusStreaming

\* C13: a frame on the bus of a Streaming stream is eventually written to the
\* client of every subscriber attached at that time, unless the subscriber
\* detaches first; and the frames written to a client are in the order of
\* their numbers, so m1 is written before m2.
C13_FramesReachSubscribers ==
  /\ \A s \in {1}, v \in 1..MaxViewers, f \in 1..MaxFrames :
       (/\ s \in StreamIds
        /\ stream[s].Status = StatusStreaming
        /\ v \in stream[s].viewers
        /\ f \in Range(stream[s].broadcast))
       ~> (/\ s \in StreamIds
           /\ v \notin stream[s].viewers \/ f \in Range(viewer[v].received))
  /\ [](\A v \in ViewerIds : \A i, j \in DOMAIN viewer[v].received :
          i < j => viewer[v].received[i] < viewer[v].received[j])

\* two subscribers attached before the first broadcast have both been written
\* the first frame and then the second
C13_Witness ==
  /\ Len(viewer) = 2
  /\ \A v \in ViewerIds : viewer[v].received = <<1, 2>>
  /\ \E s \in StreamIds : stream[s].viewers = {1, 2}

C15_UploadsSerializedPerKey ==
  /\ [](\A i, j \in DOMAIN hls.jobs :
          i /= j => hls.jobs[i].key /= hls.jobs[j].key)
  /\ [][hls'.stored >= hls.stored]_vars

\* the second version of the playlist waits for the upload of the first to
\* end, while a segment upload runs beside it
C15_Witness ==
  /\ 0 \in hls.todo
  /\ hls.playlist = 2
  /\ \E i, j \in DOMAIN hls.jobs :
       /\ hls.jobs[i] = [key |-> 0, ver |-> 1]
       /\ hls.jobs[j].key = 2

\* C16: a finished readiness wait has returned success if some tick it
\* served before the timeout found every file the input spec names at 1024
\* bytes or more (trivially so when the spec names no file), and has
\* reported a timeout in every other case.
C16_ReadinessExact ==
  wait.pc = "done" =>
    /\ wait.result \in {"ok", "Timeout"}
    /\ wait.result = "ok" <=> (InputFiles(wait.kind) = {} \/ wait.seen)

\* C17: a Start whose readiness wait timed out goes on to the encoder launch:
\* it never returns a timeout error, and when the encoder can be launched it
\* is launched and Start proceeds to the uploader.
C17_TimeoutIsWarning ==
  /\ [](ret.op = "StartEncoder" => ret.err \in {"ok", "error", "AlreadyRunning"})
  /\ [][(ret'.op = "StartEncoder" /\ orch'.warned)
        => /\ \E outcome \in EncoderOutcomes :
                orch'.transcoder =
                  StartHLSTranscoding(orch.transcoder, orch.gen, outcome)
           /\ ret'.err = "ok"
                => /\ orch'.pc = "uploader"
                   /\ orch'.transcoder.running
                   /\ Len(orch'.transcoder.scopes) =
                        Len(orch.transcoder.scopes) + 1]_vars

\* a Start that timed out waiting, launched the encoder and went on to start
\* the uploader
C17_Witness ==
  /\ ret = Result("StartUploader", 0, "ok")
  /\ orch.warned
  /\ orch.running
  /\ Cardinality(AliveScopes(orch.transcoder)) = 1

\* the whole seconds in x half seconds
Floor(x) == x \div Halves

\* C18: on a started stream with a duration D > 0, getCurrentPosition returns
\* floor(uptime) mod floor(D), also when 0 < D < 1; on a stream that never
\* started or whose duration is unset or not positive it returns 0.
C18_PositionIsFloorMod ==
  ret.op = "GetCurrentPosition" =>
    /\ ~pos.panic
    /\ IF pos.StartedAt /\ pos.VideoDuration > 0
         THEN Floor(pos.VideoDuration) > 0
                => pos.position = Floor(pos.uptime) % Floor(pos.VideoDuration)
         ELSE pos.position = 0

\* C19: a deleteStream of a registered stream that is Streaming leaves it
\* Stopped with its shutdown signal closed once and the queues of its
\* subscribers closed, and removes the entry; a deleteStream of a registered
\* stream removes the entry; an entry removed never comes back, so every
\* later getStream fails; a deleteStream of an id that is not registered
\* fails with NotFound and leaves the registry as it is.
C19_DeleteStopsThenRemoves ==
  [][/\ \A s \in StreamIds \ streams : s \notin streams'
     /\ \A s \in 1..MaxStreams :
          (ret'.op = "DeleteStream" /\ ret'.id = s) =>
             IF s \in streams
               THEN /\ s \notin streams'
                    /\ stream[s].Status = StatusStreaming =>
                         /\ stream'[s].Status = StatusStopped
                         /\ stream'[s].stopChan = 1
                         /\ \A v \in stream[s].viewers : viewer'[v].closed
               ELSE /\ ret'.err = "NotFound"
                    /\ streams' = streams]_vars

ExitedOnItsOwn(t) ==
  /\ Len(t.scopes) > 0
  /\ t.scopes[Len(t.scopes)].state = "exited"
  /\ ~t.scopes[Len(t.scopes)].cancelled

\* C21: once the encoder process has exited on its own, the stats of the
\* pipeline report running = false.
C21_StatsReportExit ==
  (orch.pc = "none" /\ ExitedOnItsOwn(orch.transcoder))
    => ~OrchGetStats(orch).running

\* C22: the step in which the exit of an encoder process is detected leaves
\* the registry, the subscribers and, for every stream, the status, startedAt
\* and the subscriber set unchanged.
C22_ExitLeavesStream ==
  [][ret'.op = "Waiter"
      => /\ streams' = streams
         /\ viewer' = viewer
         /\ \A s \in StreamIds :
              /\ stream'[s].Status = stream[s].Status
              /\ stream'[s].StartedAt = stream[s].StartedAt
              /\ stream'[s].viewers = stream[s].viewers
              /\ stream'[s].ViewerCount = stream[s].ViewerCount]_vars

\* the encoder of a running pipeline has exited while its stream is
\* Streaming, registered and watched
C22_Witness ==
  /\ ret.op = "Waiter"
  /\ orchs[ret.id].running
  /\ ~orchs[ret.id].transcoder.running
  /\ LET s == orchs[ret.id].streamID IN
       /\ s \in streams
       /\ stream[s].Status = StatusStreaming
       /\ stream[s].StartedAt
       /\ stream[s].viewers /= {}

C24_StopClosesIngest ==
  (ret.op \in {"StopStream", "DeleteStream"} /\ ret.err = "ok") =>
    LET g == stream[ret.id].webrtcIngest IN
    (g.created /\ g.peerConnection) => g.peerClosed

\* C25: a stop on a running orchestrator calls the uploader's stop, then the
\* encoder's stop, then the cancel of its scope, in that order and all three
\* whether or not the uploader's stop fails, and leaves running = false, the
\* encoder stopped and the scope and the encoder's child scope cancelled.
C25_StopOrder ==
  [][(ret'.op = "Orchestrator.Stop" /\ orch.running)
      => /\ [i \in DOMAIN ret'.calls |-> ret'.calls[i].call]
              = <<"uploader.Stop", "transcoder.Stop", "cancel">>
         /\ ~ret'.calls[1].err => orch'.uploader = "stopped"
         /\ ~orch'.running
         /\ ~orch'.transcoder.running
         /\ orch'.ctx = "cancelled"
         /\ \A i \in DOMAIN orch'.transcoder.scopes :
              orch'.transcoder.scopes[i].gen = orch.gen
                => orch'.transcoder.scopes[i].cancelled
         /\ ret'.err = "ok"]_vars

\* a stop whose uploader stop failed has gone on to stop the live encoder and
\* to cancel the scope
C25_Witness ==
  /\ ret.op = "Orchestrator.Stop"
  /\ Len(ret.calls) = 3
  /\ ret.calls[1].err
  /\ ~orch.running
  /\ orch.ctx = "cancelled"
  /\ \E i \in AliveScopes(orch.transcoder) :
       orch.transcoder.scopes[i].cancelled

\* the last launch of the encoder started a process
Launched(t) ==
  /\ Len(t.scopes) > 0
  /\ t.scopes[Len(t.scopes)].state /= "failed"

\* C26: within a Start, the readiness wait begins after the scope is made and
\* has returned before the encoder is launched; the uploader is constructed
\* and started only after the encoder launch has succeeded; running becomes
\* true only in the step in which the uploader start succeeds, and is false
\* while the call is in progress.
C26_StartOrder ==
  /\ [][(wait.pc = "idle" /\ wait'.pc /= "idle") => orch.ctx = "active"]_vars
  /\ [][ret'.op = "StartEncoder" => wait.pc = "done"]_vars
  /\ [][orch'.transcoder.scopes /= orch.transcoder.scopes
        => (ret'.op \in {"StartEncoder", "StartUploader", "Waiter"}
            /\ wait.pc = "done")]_vars
  /\ [][orch'.uploader /= orch.uploader
        => /\ ret'.op = "StartUploader"
           /\ orch.pc = "uploader"
           /\ Launched(orch.transcoder)]_vars
  /\ [][(orch'.running /\ ~orch.running)
        => /\ ret' = Result("StartUploader", 0, "ok")
           /\ orch'.uploader = "watching"
           /\ Launched(orch.transcoder)
           /\ wait.pc = "done"]_vars
  /\ [](orch.pc /= "none" => ~orch.running)

\* a Start whose wait saw both input files ready at its third tick or later
\* has launched the encoder, started the uploader and set running
C26_Witness ==
  /\ ret = Result("StartUploader", 0, "ok")
  /\ orch.running
  /\ orch.uploader = "watching"
  /\ ~orch.warned
  /\ wait.kind = "list"
  /\ wait.result = "ok"
  /\ wait.polls > 2

\* C27: when the construction or the start of the uploader fails, Start
\* returns the error with running = false and no call in progress, so that
\* the next Start is not rejected, and the encoder process launched by this
\* Start is stopped: its scope is cancelled, or it has already exited.
C27_UploaderFailureStopsEncoder ==
  [][(ret'.op = "StartUploader" /\ ret'.err = "error")
      => /\ ~orch'.running
         /\ orch'.pc = "none"
         /\ StartLockErr(orch') = "ok"
         /\ ~orch'.transcoder.running
         /\ LET n == Len(orch'.transcoder.scopes) IN
            \/ orch'.transcoder.scopes[n].cancelled
            \/ orch'.transcoder.scopes[n].state = "exited"]_vars

\* C28: cancelling the scope of an orchestrator cancels the child scope of
\* every encoder process launched under it and tears down the watcher of its
\* uploader.
C28_CancelReachesChildren ==
  orch.ctx = "active" =>
    LET c == CancelCtx(orch) IN
    /\ c.ctx = "cancelled"
    /\ \A i \in DOMAIN c.transcoder.scopes :
         c.transcoder.scopes[i].gen = orch.gen
           => c.transcoder.scopes[i].cancelled
    /\ c.uploader /= "watching"

\* C29: a start on a Streaming stream and a stop on a stream that is not
\* Streaming fail with IllegalState, and a start or stop that fails so leaves
\* the stream (status, startedAt, shutdown signal, subscriber set, number of
\* fan-out loops), the subscribers and the registry as they were.
C29_IllegalStateNoEffect ==
  [][\A s \in StreamIds :
       /\ (ret'.op = "StartStream" /\ ret'.id = s /\ ret'.err /= "NotFound"
             /\ stream[s].Status = StatusStreaming)
            => ret'.err = "IllegalState"
       /\ (ret'.op = "StopStream" /\ ret'.id = s /\ ret'.err /= "NotFound"
             /\ stream[s].Status /= StatusStreaming)
            => ret'.err = "IllegalState"
       /\ (ret'.op \in {"StartStream", "StopStream"} /\ ret'.id = s
             /\ ret'.err = "IllegalState")
            => /\ stream'[s] = stream[s]
               /\ viewer' = viewer
               /\ streams' = streams]_vars

\* a second start on a Streaming stream that has a subscriber and one
\* fan-out loop
C29_Witness ==
  /\ ret.op = "StartStream"
  /\ ret.err = "IllegalState"
  /\ stream[ret.id].Status = StatusStreaming
  /\ stream[ret.id].loops = 1
  /\ stream[ret.id].starts = 1
  /\ stream[ret.id].stopChan = 0
  /\ stream[ret.id].viewers /= {}

\* C30: once the shutdown signal of a stream is closed, every fan-out loop of
\* the stream has eventually terminated, whether or not frames remain on the
\* bus or keep arriving.
C30_LoopTerminates ==
  (1 \in StreamIds /\ stream[1].stopChan > 0)
    ~> (1 \in StreamIds /\ stream[1].loops = 0)

\* the loop of a stopped stream has returned while frames were left on the
\* bus
C30_Witness ==
  /\ ret = Result("broadcastLoop", 1, "ok")
  /\ stream[1].Status = StatusStopped
  /\ stream[1].stopChan = 1
  /\ stream[1].loops = 0
  /\ Len(stream[1].broadcast) > 1

\* C31: a loop that offers the frame it took from the bus leaves it in the
\* queue of every subscriber of the set whose queue is open and holds fewer
\* than 10 frames, leaves the full queues as they are, and is done in that one
\* step; no queue ever holds more than 10 frames.
C31_FanOutNonBlocking ==
  /\ [](\A v \in ViewerIds : Len(viewer[v].DataChan) <= ViewerCap)
  /\ [][\A s \in StreamIds :
         (ret'.op = "broadcastLoop.send" /\ ret'.id = s)
         => \E i \in DOMAIN stream[s].held :
              /\ stream'[s].held = Release(stream[s].held, i)
              /\ \A v \in stream[s].viewers :
                   ~viewer[v].closed
                   => viewer'[v].DataChan =
                        IF Len(viewer[v].DataChan) < ViewerCap
                          THEN Append(viewer[v].DataChan, stream[s].held[i])
                          ELSE viewer[v].DataChan]_vars

C33_NoSendOnClosedQueue ==
  ~(ret.op = "broadcastLoop.send" /\ ret.err = "panic")

\* C34: a stream never has more than one fan-out loop alive.
C34_SingleLoop ==
  \A s \in StreamIds : stream[s].loops <= 1

\* C35: every subscriber in the set of a stream that is Stopped, or that has
\* been deleted from the registry, has a closed queue.
C35_ClosedAfterStopOrDelete ==
  \A s \in StreamIds : \A v \in stream[s].viewers :
    (stream[s].Status = StatusStopped \/ s \notin streams)
    => viewer[v].closed

\* the scope of the process launched by the most recent successful start of
\* transcoder t (0 when no start has succeeded)
LastLaunched(t) ==
  LET ok == {i \in DOMAIN t.scopes : t.scopes[i].state /= "failed"}
  IN IF ok = {} THEN 0 ELSE CHOOSE i \in ok : \A j \in ok : j <= i

\* C36: while the process launched by the most recent successful start of
\* the encoder supervisor is alive and its scope has not been cancelled by a
\* stop, IsRunning() is true; in particular the exit of a process of an
\* earlier start does not clear the flag.
C36_RunningTracksCurrentChild ==
  LET n == LastLaunched(enc)
  IN (n > 0 /\ enc.scopes[n].state = "alive" /\ ~enc.scopes[n].cancelled)
     => IsRunning(enc)

\* C37: an orchestrator with running = false and no Start in progress owns a
\* transcoder that is not running and whose current scope (t.cancel), if any,
\* has been cancelled.
C37_StoppedMeansEncoderStopped ==
  (~orch.running /\ orch.pc = "none")
  => /\ ~IsRunning(orch.transcoder)
     /\ \/ Len(orch.transcoder.scopes) = 0
        \/ orch.transcoder.scopes[Len(orch.transcoder.scopes)].cancelled

\* C40: the exit waiter of a process whose scope was cancelled by a stop (of
\* the encoder supervisor or of the orchestrator) before the process exited
\* logs "Exited normally", never "Exited with error".
C40_StopExitIsCancellation ==
  [][\A i \in 1..MaxScopes :
       /\ (/\ ret'.op = "EncWaiter"
           /\ i \in AliveScopes(enc) \ AliveScopes(enc')
           /\ enc.scopes[i].cancelled)
          => ret'.err = "normal"
       /\ (/\ ret'.op = "Waiter"
           /\ i \in AliveScopes(orch.transcoder)
                     \ AliveScopes(orch'.transcoder)
           /\ orch.transcoder.scopes[i].cancelled)
          => ret'.err = "normal"]_vars

\* C39: every peer handle the ingest session has allocated, other than the one
\* it points to, is closed; and once CloseConnection has set the closed flag
\* no peer handle of the session is open.
C39_SingleOpenPeerHandle ==
  \A i \in DOMAIN ingest.handles :
    ingest.handles[i] /= "closed"
    => (i = ingest.peerConnection /\ ~ingest.closed)

\* the order in which the locks may be taken: registry, stream, subscriber
\* and stream, orchestrator, encoder supervisor
LockOrder ==
  {<<"bm", "s">>, <<"s", "v">>, <<"bm", "v">>,
   <<"s", "o">>, <<"o", "t">>, <<"s", "t">>, <<"bm", "o">>, <<"bm", "t">>}

\* C38: whenever some goroutine is inside a method of the registry, of a
\* stream or of an orchestrator, one of those goroutines can take its next
\* step (no set of goroutines waits for one another); and every goroutine
\* holds its locks in the order registry, stream, subscriber or stream,
\* orchestrator, encoder supervisor.
C38_NoDeadlock ==
  /\ (\E th \in DOMAIN lk : lk[th].todo /= <<>>)
     => (\E th \in DOMAIN lk : lk[th].todo /= <<>> /\ CanStep(th))
  /\ \A th \in DOMAIN lk : \A i, j \in DOMAIN lk[th].held :
       i < j => <<lk[th].held[i].l, lk[th].held[j].l>> \in LockOrder

\* DeleteStream holds the registry, the stream and a viewer; a GetStats waits
\* for the stream; a Start of an orchestrator holds it and its transcoder
C38_Witness ==
  \E a, b, c \in DOMAIN lk :
    /\ lk[a].held = <<[l |-> "bm", m |-> "W"], [l |-> "s", m |-> "W"],
                      [l |-> "v", m |-> "W"]>>
    /\ lk[b].held = <<>>
    /\ lk[b].todo = RSection("s", Section("o", <<>>))
    /\ lk[c].held = <<[l |-> "o", m |-> "W"], [l |-> "t", m |-> "W"]>>

====
